---- MODULE Spec2Model ----
(***************************************************************************)
(* trigger-adapters: the framework adapters (Hono, Express, Fastify,       *)
(* Next.js App Router POST, Next.js Pages Router handle) and the core      *)
(* trigger function they share.  Every handler invocation is a process     *)
(* that runs from its entry to its response; the host framework, the       *)
(* request and the Trigger.dev SDK (tasks.trigger) are the environment.    *)
(***************************************************************************)
EXTENDS Integers, Sequences, FiniteSets, TLC

\* ------------------------------------------------------------------ bounds

\* Handler invocations that may be in flight at the same time.
NumInvocations == 2

\* Longest task identifier (in characters) a request carries.
MaxIdLen == 1

Invocations == 1..NumInvocations

\* ------------------------------------------------------ JavaScript values

\* Characters of identifiers: a lower-case letter, an upper-case letter and
\* whitespace (what trimming or a case change would alter); a string is the
\* sequence of its characters.
Chars == {"a", "B", " "}

\* The characters a serialised URL keeps as they are (whitespace it encodes).
UrlChars == Chars \ {" "}

StringsOver(chars, n) == UNION {[1..k -> chars] : k \in 0..n}

Undefined == [kind |-> "undefined"]

Null == [kind |-> "null"]

Str(s) == [kind |-> "string", val |-> s]

Bool(b) == [kind |-> "boolean", val |-> b]

Num(n) == [kind |-> "number", val |-> n]

Arr(xs) == [kind |-> "array", val |-> xs]

Obj(fields) == [kind |-> "object", val |-> fields]

\* `typeof v`
TypeOf(v) ==
  CASE v.kind = "undefined" -> "undefined"
    [] v.kind = "string" -> "string"
    [] v.kind = "boolean" -> "boolean"
    [] v.kind = "number" -> "number"
    [] OTHER -> "object"

\* A guard that tests `v === undefined` where the code tests `!v`.
Falsy_onlyUndefined(v) == v.kind = "undefined"

\* `!v`: undefined, null, "", false and 0 are falsy; arrays and objects
\* (also empty ones) are truthy.

Falsy(v) ==
  \/ v.kind \in {"undefined", "null"}
  \/ v.kind = "string" /\ v.val = <<>>
  \/ v.kind = "boolean" /\ v.val = FALSE
  \/ v.kind = "number" /\ v.val = 0

\* `s.split(sep)`: the pieces of s between the occurrences of sep (never an
\* empty array: a string without sep is its own single piece).
RECURSIVE Split(_, _)
Split(s, sep) ==
  IF \A k \in 1..Len(s) : s[k] # sep
  THEN <<s>>
  ELSE LET k == CHOOSE j \in 1..Len(s) : s[j] = sep /\ \A m \in 1..(j - 1) : s[m] # sep
       IN <<SubSeq(s, 1, k - 1)>> \o Split(SubSeq(s, k + 1, Len(s)), sep)

\* `array.pop()`: the last element, undefined for an empty array.
Pop(array) == IF array = <<>> THEN Undefined ELSE Str(array[Len(array)])

\* ------------------------------------------------------- promise settlement

NotStarted == [state |-> "none"]

Pending == [state |-> "pending"]

Fulfilled(v) == [state |-> "fulfilled", value |-> v]

Rejected(e) == [state |-> "rejected", reason |-> e]

Settled(p) == p.state \in {"fulfilled", "rejected"}

\* ---------------------------------------------------------------- requests

Adapters == {"hono", "express", "fastify", "nextjs.POST", "nextjs.handle"}

Methods == {"POST", "GET", "PUT"}

\* Request bodies: every JSON kind, the falsy values among them.
Payloads ==
  { Null, Bool(FALSE), Bool(TRUE), Num(0), Num(42), Arr(<<1, 2, 3>>),
    Obj([user |-> [profile |-> [email |-> TRUE, push |-> FALSE]]]) }

\* The mount point of the examples, "/api/trigger/", shortened.
Prefix == <<"/", "t", "/">>

\* Route parameter values: absent, or a string (the empty one included).
ParamIds == {Undefined} \cup {Str(s) : s \in StringsOver(Chars, MaxIdLen)}

\* The identifier segments a request URL can end with.
UrlIds == {Undefined} \cup {Str(s) : s \in StringsOver(UrlChars, MaxIdLen)}

\* What Next.js supplies for a repeated query parameter.
ArrayIds == {Arr(<<"a">>), Arr(<<>>)}

\* request.url for a route of the documented shape /<prefix>/:id: the prefix
\* followed by the identifier segment, if any.
UrlOf(id) == Prefix \o (IF id.kind = "string" THEN id.val ELSE <<>>)

\* The rejection of c.req.json() / request.json() on a malformed body.
SyntaxError == "SyntaxError: Unexpected token in JSON"

\* A request as the host framework hands it to the handler.
\*   id     : params.id (Hono, Express, Fastify), query.id (handle), the
\*            dynamic segment of the route (POST, which reads url instead)
\*   body   : the parsed body; bodyOk: whether parsing it succeeds (Hono and
\*            POST parse in the handler; elsewhere the framework has parsed)
Request(adapter, method, id, body, bodyOk) ==
  [adapter |-> adapter, method |-> method, id |-> id, url |-> UrlOf(id),
   body |-> body, bodyOk |-> bodyOk]

\* The requests the frameworks deliver: POST routes for Hono, Express, Fastify
\* and the App Router (the last two lines: bodies that fail to parse), and
\* any method for the Pages Router handle.
Requests ==
  {Request(a, "POST", id, b, TRUE) :
     a \in {"hono", "express", "fastify"}, id \in ParamIds, b \in Payloads}
  \cup {Request("nextjs.POST", "POST", id, b, TRUE) : id \in UrlIds, b \in Payloads}
  \cup {Request("nextjs.handle", m, id, b, TRUE) :
     m \in Methods, id \in ParamIds \cup ArrayIds, b \in Payloads}
  \cup {Request("hono", "POST", id, Undefined, FALSE) : id \in ParamIds}
  \cup {Request("nextjs.POST", "POST", id, Undefined, FALSE) : id \in UrlIds}

\* The traffic on the other invocations: a valid request with an identifier
\* and a payload that the first invocation's requests also use.
BackgroundRequests ==
  { Request("express", "POST", Str(<<"a">>), Arr(<<1, 2, 3>>), TRUE) }

RequestsFor(i) == IF i = 1 THEN Requests ELSE BackgroundRequests

NoRequest == [adapter |-> "none"]

\* ------------------------------------------------------------------- the SDK

\* Run ids the SDK hands out and the errors it rejects with.
Runs == {"run_abc123", "run_def456"}

Errors == {"Trigger failed", "Task not found"}

\* The handle tasks.trigger resolves with (tests/setup.ts mock).
Handle(run, taskIdentifier) ==
  [id |-> run, taskIdentifier |-> taskIdentifier, publicAccessToken |-> "test-token"]

\* ------------------------------------------------------------------- state

VARIABLES
  pc,        \* where each invocation is: idle, entry, awaitJson, awaitTrigger, done
  req,       \* the request of each invocation
  task,      \* the handler's local: the extracted identifier
  payload,   \* the handler's local: the payload
  calls,     \* the arguments of the tasks.trigger calls each invocation made
  sdk,       \* the promise tasks.trigger returned to each invocation
  result,    \* the settlement of `await trigger(...)` in each invocation
  res,       \* the response object: statusCode and the bodies sent
  ret        \* the settlement of the handler's own promise

vars == <<pc, req, task, payload, calls, sdk, result, res, ret>>

\* A fresh response object: the frameworks' default status is 200.
FreshResponse == [statusCode |-> 200, sent |-> <<>>]

Init ==
  /\ pc = [i \in Invocations |-> "idle"]
  /\ req = [i \in Invocations |-> NoRequest]
  /\ task = [i \in Invocations |-> Undefined]
  /\ payload = [i \in Invocations |-> Undefined]
  /\ calls = [i \in Invocations |-> <<>>]
  /\ sdk = [i \in Invocations |-> NotStarted]
  /\ result = [i \in Invocations |-> NotStarted]
  /\ res = [i \in Invocations |-> FreshResponse]
  /\ ret = [i \in Invocations |-> NotStarted]

\* The host framework dispatches a request to a fresh handler invocation.
Receive(i) ==
  /\ pc[i] = "idle"
  /\ \E r \in RequestsFor(i) : req' = [req EXCEPT ![i] = r]
  /\ pc' = [pc EXCEPT ![i] = "entry"]
  /\ ret' = [ret EXCEPT ![i] = Pending]
  /\ UNCHANGED <<task, payload, calls, sdk, result, res>>

\* A finished invocation whose response object is kept for the next request.
Discard_keepsResponse(i) ==
  /\ pc[i] = "done"
  /\ pc' = [pc EXCEPT ![i] = "idle"]
  /\ req' = [req EXCEPT ![i] = NoRequest]
  /\ task' = [task EXCEPT ![i] = Undefined]
  /\ payload' = [payload EXCEPT ![i] = Undefined]
  /\ calls' = [calls EXCEPT ![i] = <<>>]
  /\ sdk' = [sdk EXCEPT ![i] = NotStarted]
  /\ result' = [result EXCEPT ![i] = NotStarted]
  /\ ret' = [ret EXCEPT ![i] = NotStarted]
  /\ UNCHANGED res

\* A finished invocation is discarded with its request, response and locals;
\* the next request gets a new one.
Discard(i) ==
  /\ pc[i] = "done"
  /\ pc' = [pc EXCEPT ![i] = "idle"]
  /\ req' = [req EXCEPT ![i] = NoRequest]
  /\ task' = [task EXCEPT ![i] = Undefined]
  /\ payload' = [payload EXCEPT ![i] = Undefined]
  /\ calls' = [calls EXCEPT ![i] = <<>>]
  /\ sdk' = [sdk EXCEPT ![i] = NotStarted]
  /\ result' = [result EXCEPT ![i] = NotStarted]
  /\ res' = [res EXCEPT ![i] = FreshResponse]
  /\ ret' = [ret EXCEPT ![i] = NotStarted]

\* ------------------------------------------------------- response writing

TaskIdRequired == [error |-> "Task ID is required"]

MethodNotAllowed == [error |-> "Method not allowed"]

FailedToTrigger == [error |-> "Failed to trigger task"]

\* response.status(code) / reply.code(code): sets the status, sends nothing.
Status(response, code) == [response EXCEPT !.statusCode = code]

\* response.json(body) / response.send(body) / reply.send(body) / c.json(body) /
\* NextResponse.json(body): sends body under the status set so far.  The
\* writer is taken to return normally, as it does for a JSON body on a
\* response not yet sent.
Send(response, body) ==
  [response EXCEPT !.sent = Append(@, [status |-> response.statusCode, body |-> body])]

\* A JSON response built without its status argument.
JsonResponse_defaultStatus(response, body, status) == Send(response, body)

\* c.json(body, status) / NextResponse.json(body, {status}).

JsonResponse(response, body, status) == Send(Status(response, status), body)

\* The handler's promise fulfils (with a Response, or with nothing).
Returned == [state |-> "fulfilled"]

\* --------------------------------------------------------------- core.ts

\* The SDK called a second time with the same arguments (a retry).
tasks_trigger_twice(log, id, p) == log \o <<[id |-> id, payload |-> p], [id |-> id, payload |-> p]>>

\* The SDK called with a falsy payload dropped (`payload || undefined`).
tasks_trigger_dropsFalsy(log, id, p) ==
  Append(log, [id |-> id, payload |-> IF Falsy(p) THEN Undefined ELSE p])

\* tasks.trigger(id, payload): the call, as the SDK records it.
tasks_trigger(log, id, p) == Append(log, [id |-> id, payload |-> p])

\* `s.trim()` on an identifier: the string without the whitespace around it.
RECURSIVE Trim(_)
Trim(s) ==
  IF s # <<>> /\ Head(s) = " " THEN Trim(Tail(s))
  ELSE IF s # <<>> /\ s[Len(s)] = " " THEN Trim(SubSeq(s, 1, Len(s) - 1))
  ELSE s

\* trigger with the identifier normalised before it is echoed.
trigger_trimmedId(id, p, settled) ==
  IF settled.state = "fulfilled"
  THEN Fulfilled([handle |-> settled.value, taskId |-> Str(Trim(id.val)), payload |-> p])
  ELSE Rejected(settled.reason)

\* trigger rebuilding the handle from the fields it knows.
trigger_rebuiltHandle(id, p, settled) ==
  IF settled.state = "fulfilled"
  THEN Fulfilled([handle |-> [id |-> settled.value.id, taskIdentifier |-> id],
                  taskId |-> id, payload |-> p])
  ELSE Rejected(settled.reason)

\* trigger translating the SDK's rejection into an error of its own.
trigger_wrapsError(id, p, settled) ==
  IF settled.state = "fulfilled"
  THEN Fulfilled([handle |-> settled.value, taskId |-> id, payload |-> p])
  ELSE Rejected("Failed to trigger task")

\* trigger echoing a falsy payload as an empty object (`payload || {}`).
trigger_defaultsPayload(id, p, settled) ==
  IF settled.state = "fulfilled"
  THEN Fulfilled([handle |-> settled.value, taskId |-> id,
                  payload |-> IF Falsy(p) THEN Obj(<<>>) ELSE p])
  ELSE Rejected(settled.reason)

\* `trigger(id, payload)` once tasks.trigger has settled: the envelope when
\* it resolved; when it rejected, nothing catches and trigger rejects alike.
trigger(id, p, settled) ==
  IF settled.state = "fulfilled"
  THEN Fulfilled([handle |-> settled.value, taskId |-> id, payload |-> p])
  ELSE Rejected(settled.reason)

\* The step taken only while no other invocation's SDK call is in flight (a
\* lock around the SDK).
AwaitTrigger_serialised(i, id, p) ==
  /\ \A j \in Invocations \ {i} : sdk[j].state # "pending"
  /\ calls' = [calls EXCEPT ![i] = tasks_trigger(@, id, p)]
  /\ sdk' = [sdk EXCEPT ![i] = Pending]
  /\ pc' = [pc EXCEPT ![i] = "awaitTrigger"]

\* The step with de-duplication: the SDK is not called again while another
\* invocation has made the same call.
AwaitTrigger_deduplicated(i, id, p) ==
  /\ calls' = [calls EXCEPT ![i] =
                 IF \E j \in Invocations \ {i} : calls[j] = <<[id |-> id, payload |-> p]>>
                 THEN @
                 ELSE tasks_trigger(@, id, p)]
  /\ sdk' = [sdk EXCEPT ![i] = Pending]
  /\ pc' = [pc EXCEPT ![i] = "awaitTrigger"]

\* The step `await trigger(id, p)` starts: tasks.trigger is called and the
\* invocation suspends on its promise.
AwaitTrigger(i, id, p) ==
  /\ calls' = [calls EXCEPT ![i] = tasks_trigger(@, id, p)]
  /\ sdk' = [sdk EXCEPT ![i] = Pending]
  /\ pc' = [pc EXCEPT ![i] = "awaitTrigger"]

\* The invocation ends: its promise settles as `settlement`.
Finish(i, response, settlement) ==
  /\ res' = [res EXCEPT ![i] = response]
  /\ ret' = [ret EXCEPT ![i] = settlement]
  /\ pc' = [pc EXCEPT ![i] = "done"]

\* The SDK settles the call of invocation i: it resolves with a handle for
\* the identifier it was called with, or rejects.
SdkResolve(i) ==
  /\ pc[i] = "awaitTrigger"
  /\ sdk[i].state = "pending"
  /\ \E run \in Runs :
       sdk' = [sdk EXCEPT ![i] = Fulfilled(Handle(run, calls[i][Len(calls[i])].id))]
  /\ UNCHANGED <<pc, req, task, payload, calls, result, res, ret>>

SdkReject(i) ==
  /\ pc[i] = "awaitTrigger"
  /\ sdk[i].state = "pending"
  /\ \E e \in Errors : sdk' = [sdk EXCEPT ![i] = Rejected(e)]
  /\ UNCHANGED <<pc, req, task, payload, calls, result, res, ret>>

\* ---------------------------------------------------------------- hono.ts

\* The Hono handler reading the body before it looks at the identifier.
HonoHandler_readsBodyFirst(i) ==
  /\ pc[i] = "entry"
  /\ req[i].adapter = "hono"
  /\ task' = [task EXCEPT ![i] = req[i].id]
  /\ pc' = [pc EXCEPT ![i] = "awaitJson"]
  /\ UNCHANGED <<req, payload, calls, sdk, result, res, ret>>

\* Lines 6-12: the identifier, the guard, then `await c.req.json()`.
HonoHandler(i) ==
  /\ pc[i] = "entry"
  /\ req[i].adapter = "hono"
  /\ task' = [task EXCEPT ![i] = req[i].id]
  /\ IF Falsy(req[i].id)
     THEN Finish(i, JsonResponse(res[i], TaskIdRequired, 400), Returned)
     ELSE /\ pc' = [pc EXCEPT ![i] = "awaitJson"]
          /\ UNCHANGED <<res, ret>>
  /\ UNCHANGED <<req, payload, calls, sdk, result>>

\* The body read with a fallback: a body that cannot be parsed counts as {}
\* (`await c.req.json().catch(() => ({}))`).
HonoHandlerJson_defaultsBody(i) ==
  /\ pc[i] = "awaitJson"
  /\ req[i].adapter = "hono"
  /\ LET body == IF req[i].bodyOk THEN req[i].body ELSE Obj(<<>>)
     IN /\ payload' = [payload EXCEPT ![i] = body]
        /\ AwaitTrigger(i, task[i], body)
  /\ UNCHANGED <<req, task, result, res, ret>>

\* Lines 12-14: the body is parsed (or the parse rejects, and so does the
\* handler), then `await trigger(task, payload)`.
HonoHandlerJson(i) ==
  /\ pc[i] = "awaitJson"
  /\ req[i].adapter = "hono"
  /\ IF req[i].bodyOk
     THEN /\ payload' = [payload EXCEPT ![i] = req[i].body]
          /\ AwaitTrigger(i, task[i], req[i].body)
          /\ UNCHANGED <<res, ret>>
     ELSE /\ Finish(i, res[i], Rejected(SyntaxError))
          /\ UNCHANGED <<payload, calls, sdk>>
  /\ UNCHANGED <<req, task, result>>

\* Lines 14-16 once trigger has settled: `return c.json(result)`, or the
\* rejection leaves the handler.
HonoResult(response, r) ==
  IF r.state = "fulfilled"
  THEN [res |-> Send(response, r.value), ret |-> Returned]
  ELSE [res |-> response, ret |-> Rejected(r.reason)]

HonoHandlerResult(i) ==
  /\ pc[i] = "awaitTrigger"
  /\ req[i].adapter = "hono"
  /\ Settled(sdk[i])
  /\ LET r == trigger(task[i], payload[i], sdk[i])
         o == HonoResult(res[i], r)
     IN /\ result' = [result EXCEPT ![i] = r]
        /\ Finish(i, o.res, o.ret)
  /\ UNCHANGED <<req, task, payload, calls, sdk>>

\* ------------------------------------------------------------- express.ts

\* The Express handler awaiting a body read of its own before the SDK call.
ExpressHandler_awaitsBody(i) ==
  /\ pc[i] = "entry"
  /\ req[i].adapter = "express"
  /\ task' = [task EXCEPT ![i] = req[i].id]
  /\ IF Falsy(req[i].id)
     THEN /\ Finish(i, Send(Status(res[i], 400), TaskIdRequired), Returned)
     ELSE /\ pc' = [pc EXCEPT ![i] = "awaitJson"]
          /\ UNCHANGED <<res, ret>>
  /\ UNCHANGED <<req, payload, calls, sdk, result>>

\* Lines 6-14: the identifier, the guard, the parsed body, then
\* `await trigger(task, payload)`.
ExpressHandler(i) ==
  /\ pc[i] = "entry"
  /\ req[i].adapter = "express"
  /\ task' = [task EXCEPT ![i] = req[i].id]
  /\ IF Falsy(req[i].id)
     THEN /\ Finish(i, Send(Status(res[i], 400), TaskIdRequired), Returned)
          /\ UNCHANGED <<payload, calls, sdk>>
     ELSE /\ payload' = [payload EXCEPT ![i] = req[i].body]
          /\ AwaitTrigger(i, req[i].id, req[i].body)
          /\ UNCHANGED <<res, ret>>
  /\ UNCHANGED <<req, result>>

\* The Express reply with a catch that answers 500 and swallows the error.
ExpressResult_catches(response, r) ==
  IF r.state = "fulfilled"
  THEN [res |-> Send(response, r.value), ret |-> Returned]
  ELSE [res |-> Send(Status(response, 500), FailedToTrigger), ret |-> Returned]

\* Lines 14-16 once trigger has settled: `response.send(result)`.
ExpressResult(response, r) ==
  IF r.state = "fulfilled"
  THEN [res |-> Send(response, r.value), ret |-> Returned]
  ELSE [res |-> response, ret |-> Rejected(r.reason)]

\* The Express handler waiting for the SDK again whenever the call rejected.
ExpressHandlerResult_waitsAgain(i) ==
  /\ pc[i] = "awaitTrigger"
  /\ req[i].adapter = "express"
  /\ Settled(sdk[i])
  /\ IF sdk[i].state = "rejected"
     THEN /\ sdk' = [sdk EXCEPT ![i] = Pending]
          /\ UNCHANGED <<pc, result, res, ret>>
     ELSE /\ LET r == trigger(task[i], payload[i], sdk[i])
                 o == ExpressResult(res[i], r)
             IN /\ result' = [result EXCEPT ![i] = r]
                /\ Finish(i, o.res, o.ret)
          /\ UNCHANGED sdk
  /\ UNCHANGED <<req, task, payload, calls>>

ExpressHandlerResult(i) ==
  /\ pc[i] = "awaitTrigger"
  /\ req[i].adapter = "express"
  /\ Settled(sdk[i])
  /\ LET r == trigger(task[i], payload[i], sdk[i])
         o == ExpressResult(res[i], r)
     IN /\ result' = [result EXCEPT ![i] = r]
        /\ Finish(i, o.res, o.ret)
  /\ UNCHANGED <<req, task, payload, calls, sdk>>

\* ------------------------------------------------------------- fastify.ts

\* Lines 13-21: the identifier, the guard, then inside the try block the
\* parsed body and `await trigger(taskId, payload)`.
FastifyHandler(i) ==
  /\ pc[i] = "entry"
  /\ req[i].adapter = "fastify"
  /\ task' = [task EXCEPT ![i] = req[i].id]
  /\ IF Falsy(req[i].id)
     THEN /\ Finish(i, Send(Status(res[i], 400), TaskIdRequired), Returned)
          /\ UNCHANGED <<payload, calls, sdk>>
     ELSE /\ payload' = [payload EXCEPT ![i] = req[i].body]
          /\ AwaitTrigger(i, req[i].id, req[i].body)
          /\ UNCHANGED <<res, ret>>
  /\ UNCHANGED <<req, result>>

\* The Fastify reply without the `return` before reply.send(result): the
\* failure reply follows the success reply.
FastifyResult_fallsThrough(response, r) ==
  IF r.state = "fulfilled"
  THEN [res |-> Send(Status(Send(response, r.value), 500), FailedToTrigger), ret |-> Returned]
  ELSE [res |-> Send(Status(response, 500), FailedToTrigger), ret |-> Returned]

\* The Fastify reply without the try/catch: the rejection leaves the handler.
FastifyResult_noCatch(response, r) ==
  IF r.state = "fulfilled"
  THEN [res |-> Send(response, r.value), ret |-> Returned]
  ELSE [res |-> response, ret |-> Rejected(r.reason)]

\* The Fastify reply whose catch block reports the caught error's message.
FastifyResult_leaksMessage(response, r) ==
  IF r.state = "fulfilled"
  THEN [res |-> Send(response, r.value), ret |-> Returned]
  ELSE [res |-> Send(Status(response, 500), [error |-> r.reason]), ret |-> Returned]

\* Lines 21-25 once trigger has settled: `return reply.send(result)`, or the
\* catch block's `reply.code(500).send(...)`.
FastifyResult(response, r) ==
  IF r.state = "fulfilled"
  THEN [res |-> Send(response, r.value), ret |-> Returned]
  ELSE [res |-> Send(Status(response, 500), FailedToTrigger), ret |-> Returned]

FastifyHandlerResult(i) ==
  /\ pc[i] = "awaitTrigger"
  /\ req[i].adapter = "fastify"
  /\ Settled(sdk[i])
  /\ LET r == trigger(task[i], payload[i], sdk[i])
         o == FastifyResult(res[i], r)
     IN /\ result' = [result EXCEPT ![i] = r]
        /\ Finish(i, o.res, o.ret)
  /\ UNCHANGED <<req, task, payload, calls, sdk>>

\* -------------------------------------------------------------- nextjs.ts

\* POST, lines 13-19: the last "/"-piece of the request URL, the guard,
\* then `await request.json()`.
NextPOST(i) ==
  /\ pc[i] = "entry"
  /\ req[i].adapter = "nextjs.POST"
  /\ LET taskId == Pop(Split(req[i].url, "/"))
     IN /\ task' = [task EXCEPT ![i] = taskId]
        /\ IF Falsy(taskId)
           THEN Finish(i, JsonResponse(res[i], TaskIdRequired, 400), Returned)
           ELSE /\ pc' = [pc EXCEPT ![i] = "awaitJson"]
                /\ UNCHANGED <<res, ret>>
  /\ UNCHANGED <<req, payload, calls, sdk, result>>

\* POST, lines 19-21: the body is parsed (or the parse rejects, and so does
\* POST), then `await trigger(taskId, payload)`.
NextPOSTJson(i) ==
  /\ pc[i] = "awaitJson"
  /\ req[i].adapter = "nextjs.POST"
  /\ IF req[i].bodyOk
     THEN /\ payload' = [payload EXCEPT ![i] = req[i].body]
          /\ AwaitTrigger(i, task[i], req[i].body)
          /\ UNCHANGED <<res, ret>>
     ELSE /\ Finish(i, res[i], Rejected(SyntaxError))
          /\ UNCHANGED <<payload, calls, sdk>>
  /\ UNCHANGED <<req, task, result>>

\* POST, lines 21-23 once trigger has settled: `return NextResponse.json(response)`.
NextPOSTResponse(response, r) ==
  IF r.state = "fulfilled"
  THEN [res |-> Send(response, r.value), ret |-> Returned]
  ELSE [res |-> response, ret |-> Rejected(r.reason)]

NextPOSTResult(i) ==
  /\ pc[i] = "awaitTrigger"
  /\ req[i].adapter = "nextjs.POST"
  /\ Settled(sdk[i])
  /\ LET r == trigger(task[i], payload[i], sdk[i])
         o == NextPOSTResponse(res[i], r)
     IN /\ result' = [result EXCEPT ![i] = r]
        /\ Finish(i, o.res, o.ret)
  /\ UNCHANGED <<req, task, payload, calls, sdk>>

\* A method guard that refuses GET only.
MethodRefused_onlyGET(method) == method = "GET"

\* handle, line 26: `request.method !== "POST"`.

MethodRefused(method) == method # "POST"

\* The identifier guard without the typeof test.
NotATaskId_onlyFalsy(taskId) == Falsy(taskId)

\* handle, line 32: `!taskId || typeof taskId !== "string"`.
NotATaskId(taskId) == Falsy(taskId) \/ TypeOf(taskId) # "string"

\* handle, lines 26-38: the method guard, query.id, the identifier guard, the
\* parsed body, then `await trigger(taskId, payload)`.
NextHandle(i) ==
  /\ pc[i] = "entry"
  /\ req[i].adapter = "nextjs.handle"
  /\ IF MethodRefused(req[i].method)
     THEN /\ Finish(i, Send(Status(res[i], 405), MethodNotAllowed), Returned)
          /\ UNCHANGED <<task, payload, calls, sdk>>
     ELSE /\ task' = [task EXCEPT ![i] = req[i].id]
          /\ IF NotATaskId(req[i].id)
             THEN /\ Finish(i, Send(Status(res[i], 400), TaskIdRequired), Returned)
                  /\ UNCHANGED <<payload, calls, sdk>>
             ELSE /\ payload' = [payload EXCEPT ![i] = req[i].body]
                  /\ AwaitTrigger(i, req[i].id, req[i].body)
                  /\ UNCHANGED <<res, ret>>
  /\ UNCHANGED <<req, result>>

\* handle answering with the run object alone instead of trigger's result.
NextHandleResponse_runOnly(response, r) ==
  IF r.state = "fulfilled"
  THEN [res |-> Send(Status(response, 200), r.value.handle), ret |-> Returned]
  ELSE [res |-> response, ret |-> Rejected(r.reason)]

\* handle, lines 38-40 once trigger has settled: `response.status(200).json(result)`.
NextHandleResponse(response, r) ==
  IF r.state = "fulfilled"
  THEN [res |-> Send(Status(response, 200), r.value), ret |-> Returned]
  ELSE [res |-> response, ret |-> Rejected(r.reason)]

NextHandleResult(i) ==
  /\ pc[i] = "awaitTrigger"
  /\ req[i].adapter = "nextjs.handle"
  /\ Settled(sdk[i])
  /\ LET r == trigger(task[i], payload[i], sdk[i])
         o == NextHandleResponse(res[i], r)
     IN /\ result' = [result EXCEPT ![i] = r]
        /\ Finish(i, o.res, o.ret)
  /\ UNCHANGED <<req, task, payload, calls, sdk>>

\* ------------------------------------------------------------ specification

Next ==
  \E i \in Invocations :
    \/ Receive(i)
    \/ Discard(i)
    \/ SdkResolve(i)
    \/ SdkReject(i)
    \/ HonoHandler(i)
    \/ HonoHandlerJson(i)
    \/ HonoHandlerResult(i)
    \/ ExpressHandler(i)
    \/ ExpressHandlerResult(i)
    \/ FastifyHandler(i)
    \/ FastifyHandlerResult(i)
    \/ NextPOST(i)
    \/ NextPOSTJson(i)
    \/ NextPOSTResult(i)
    \/ NextHandle(i)
    \/ NextHandleResult(i)

Spec == Init /\ [][Next]_vars

\* ------------------------------------------------------------------ claims

\* What a request asks for, read off the request alone.
HasRequest(i) == pc[i] # "idle"

IdMissing(r) == r.id = Undefined \/ r.id = Str(<<>>)

IdValid(r) == r.id.kind = "string" /\ r.id.val # <<>>

NonPostToHandle(r) == r.adapter = "nextjs.handle" /\ r.method # "POST"

\* The request passes the guards and its payload can be obtained.
Triggerable(r) == IdValid(r) /\ ~NonPostToHandle(r) /\ r.bodyOk

Done(i) == pc[i] = "done"

IsEnvelope(body) == DOMAIN body = {"handle", "taskId", "payload"}

\* The one response of a finished invocation is `status` with `body`.
Answered(i, status, body) == res[i].sent = <<[status |-> status, body |-> body]>>

\* The full success envelope went out as the only response, with status 200.
FullSuccess(i) ==
  /\ Len(res[i].sent) = 1
  /\ res[i].sent[1].status = 200
  /\ IsEnvelope(res[i].sent[1].body)
  /\ ret[i] = Returned

C3_HandlePassThrough ==
  \A i \in Invocations :
    \A k \in 1..Len(res[i].sent) :
      IsEnvelope(res[i].sent[k].body) =>
        /\ sdk[i].state = "fulfilled"
        /\ res[i].sent[k].body.handle = sdk[i].value

\* C3 witness: Fastify sent an envelope holding the handle of run_def456.
C3_Witness ==
  \E i \in Invocations :
    /\ Done(i) /\ req[i].adapter = "fastify"
    /\ FullSuccess(i)
    /\ sdk[i].state = "fulfilled" /\ sdk[i].value.id = "run_def456"

\* C4: an invocation calls the SDK at most once, and one that has passed the
\* guards and obtained its payload has called it exactly once, with exactly
\* (identifier, payload), also after that call has rejected.
C4_ExactlyOneSdkCall ==
  \A i \in Invocations :
    /\ Len(calls[i]) <= 1
    /\ (pc[i] \in {"awaitTrigger", "done"} /\ Triggerable(req[i])) =>
         calls[i] = <<[id |-> req[i].id, payload |-> req[i].body]>>

\* C4 witness: a Hono invocation finished after its one SDK call rejected.
C4_Witness ==
  \E i \in Invocations :
    /\ Done(i) /\ req[i].adapter = "hono"
    /\ sdk[i].state = "rejected"
    /\ Len(calls[i]) = 1

C7_UniformRejectionPolicy ==
  \A i \in Invocations :
    (Done(i) /\ sdk[i].state = "rejected") =>
      /\ ret[i] = Returned
      /\ Answered(i, 500, FailedToTrigger)

\* C8: the core trigger function does not catch: when tasks.trigger rejects
\* with e, `await trigger(id, payload)` rejects with the same e and yields no
\* envelope.
C8_TriggerPropagatesRejection ==
  \A i \in Invocations :
    (sdk[i].state = "rejected" /\ result[i] # NotStarted) =>
      result[i] = Rejected(sdk[i].reason)

\* C8 witness: in a Next.js POST invocation trigger rejected with the SDK's
\* "Task not found".
C8_Witness ==
  \E i \in Invocations :
    /\ req[i].adapter = "nextjs.POST"
    /\ sdk[i] = Rejected("Task not found")
    /\ result[i] = Rejected("Task not found")

\* C9: the Pages Router handle answers every request whose method is not POST
\* with 405 {error: "Method not allowed"} and never calls the SDK for it,
\* whatever the identifier and the body.
C9_NonPostIs405 ==
  \A i \in Invocations :
    (HasRequest(i) /\ NonPostToHandle(req[i])) =>
      /\ calls[i] = <<>>
      /\ sdk[i] = NotStarted
      /\ Done(i) => (Answered(i, 405, MethodNotAllowed) /\ ret[i] = Returned)

\* C9 witness: a PUT with a valid identifier was answered 405.
C9_Witness ==
  \E i \in Invocations :
    /\ Done(i)
    /\ req[i].adapter = "nextjs.handle" /\ req[i].method = "PUT"
    /\ req[i].id = Str(<<"a">>)
    /\ Answered(i, 405, MethodNotAllowed)

\* The terminal outcome of an invocation, read off what the caller gets.
Outcome(i) ==
  CASE Answered(i, 400, TaskIdRequired) /\ ret[i] = Returned -> "rejected-400"
    [] Answered(i, 405, MethodNotAllowed) /\ ret[i] = Returned -> "rejected-405"
    [] FullSuccess(i) -> "success-200"
    [] Answered(i, 500, FailedToTrigger) /\ ret[i] = Returned -> "failed-500"
    [] res[i].sent = <<>> /\ ret[i].state = "rejected" -> "failed-propagated"
    [] OTHER -> "other"

\* An invocation at its entry has touched nothing yet.
AtStart(i) ==
  /\ calls[i] = <<>> /\ sdk[i] = NotStarted /\ result[i] = NotStarted
  /\ res[i] = FreshResponse /\ ret[i] = Pending

\* The terminal outcome is the one its path allows: a rejection without any
\* SDK call, success after a resolved call, failure after a rejected call or
\* a body that could not be read.
OutcomeFitsPath(i) ==
  CASE Outcome(i) \in {"rejected-400", "rejected-405"} -> sdk[i] = NotStarted
    [] Outcome(i) = "success-200" -> sdk[i].state = "fulfilled"
    [] Outcome(i) = "failed-500" -> sdk[i].state = "rejected"
    [] Outcome(i) = "failed-propagated" ->
         sdk[i].state = "rejected" \/ (sdk[i] = NotStarted /\ ~req[i].bodyOk)
    [] OTHER -> FALSE

RoutePayloads == {Null, Arr(<<1, 2, 3>>)}

\* Query strings a client may add: "?a" and one holding a slash, "?/".
QueryStrings == {<<"?", "a">>, <<"?", "/">>}

\* "/api/v1/tasks/" and "/trigger", shortened.
NestedPrefix == <<"/", "v", "/">>

NestedSuffix == <<"/", "t">>

\* A request on one of these routes.
\*   wanted : the identifier the route addresses (its dynamic segment)
\*   id     : query.id as Next.js binds it (absent on the catch-all route,
\*            whose segments arrive as query.all)
\*   all    : query.all
RouteRequest(adapter, route, wanted, id, all, url, body) ==
  [adapter |-> adapter, method |-> "POST", route |-> route, wanted |-> wanted,
   id |-> id, all |-> all, url |-> url, body |-> body, bodyOk |-> TRUE]

RouteRequests ==
  {RouteRequest("nextjs.POST", "id-last", id, id, Undefined, UrlOf(id), b) :
     id \in UrlIds, b \in RoutePayloads}
  \cup {RouteRequest("nextjs.POST", "query", id, id, Undefined, UrlOf(id) \o q, b) :
     id \in UrlIds, q \in QueryStrings, b \in RoutePayloads}
  \cup {RouteRequest("nextjs.POST", "nested", id, id, Undefined,
                     NestedPrefix \o id.val \o NestedSuffix, b) :
     id \in UrlIds \ {Undefined, Str(<<>>)}, b \in RoutePayloads}
  \cup {RouteRequest("nextjs.handle", "id-last", id, id, Undefined, UrlOf(id), b) :
     id \in UrlIds, b \in RoutePayloads}
  \cup {RouteRequest("nextjs.handle", "catch-all", id, Undefined,
                     Arr(<<"t", id.val>>), UrlOf(id), b) :
     id \in UrlIds \ {Undefined, Str(<<>>)}, b \in RoutePayloads}

\* Next.js dispatches a request on one of the routes to a fresh invocation.
ReceiveRoute(i) ==
  /\ pc[i] = "idle"
  /\ \E r \in RouteRequests : req' = [req EXCEPT ![i] = r]
  /\ pc' = [pc EXCEPT ![i] = "entry"]
  /\ ret' = [ret EXCEPT ![i] = Pending]
  /\ UNCHANGED <<task, payload, calls, sdk, result, res>>

NextRoutes ==
  \E i \in Invocations :
    \/ ReceiveRoute(i)
    \/ Discard(i)
    \/ SdkResolve(i)
    \/ SdkReject(i)
    \/ NextPOST(i)
    \/ NextPOSTJson(i)
    \/ NextPOSTResult(i)
    \/ NextHandle(i)
    \/ NextHandleResult(i)

\* The Next.js adapter mounted on the routes of its guides.
SpecRoutes == Init /\ [][NextRoutes]_vars

\* ------------------------------------------------------ requests alike

\* Every entry point receives the same few requests, so that two invocations
\* can be given the same identifier, method and payload, or differ in all of
\* them: identifier and body as <<id, body>>.
PairCases ==
  { <<Str(<<"a">>), Arr(<<1, 2, 3>>)>>, <<Str(<<"B">>), Null>>,
    <<Undefined, Arr(<<1, 2, 3>>)>> }

PairRequests ==
  {Request(a, "POST", c[1], c[2], TRUE) : a \in Adapters, c \in PairCases}
  \cup {Request("nextjs.handle", "GET", c[1], c[2], TRUE) : c \in PairCases}

\* The two invocations that are compared; the others carry the background
\* traffic.
Pair == {1, 2}

PairRequestsFor(i) == IF i \in Pair THEN PairRequests ELSE BackgroundRequests

\* The framework dispatches one of these requests to a fresh invocation.
ReceivePair(i) ==
  /\ pc[i] = "idle"
  /\ \E r \in PairRequestsFor(i) : req' = [req EXCEPT ![i] = r]
  /\ pc' = [pc EXCEPT ![i] = "entry"]
  /\ ret' = [ret EXCEPT ![i] = Pending]
  /\ UNCHANGED <<task, payload, calls, sdk, result, res>>

NextPairs ==
  \E i \in Invocations :
    \/ ReceivePair(i)
    \/ Discard(i)
    \/ SdkResolve(i)
    \/ SdkReject(i)
    \/ HonoHandler(i)
    \/ HonoHandlerJson(i)
    \/ HonoHandlerResult(i)
    \/ ExpressHandler(i)
    \/ ExpressHandlerResult(i)
    \/ FastifyHandler(i)
    \/ FastifyHandlerResult(i)
    \/ NextPOST(i)
    \/ NextPOSTJson(i)
    \/ NextPOSTResult(i)
    \/ NextHandle(i)
    \/ NextHandleResult(i)

\* All entry points serving requests that can coincide.
SpecPairs == Init /\ [][NextPairs]_vars

\* ------------------------------------------------------- claims C11 - C20

\* Everything the model keeps about invocation i.
Local(i) ==
  <<pc[i], req[i], task[i], payload[i], calls[i], sdk[i], result[i], res[i], ret[i]>>

\* A step touches the state of at most one invocation.
OneInvocationSteps ==
  \E i \in Invocations : \A j \in Invocations \ {i} : Local(j)' = Local(j)

\* Invocation i runs POST and invocation j runs handle, on POST requests with
\* the same identifier and payload, and the SDK settled both alike.
SameNextjsCase(i, j) ==
  /\ Done(i) /\ Done(j)
  /\ req[i].adapter = "nextjs.POST" /\ req[j].adapter = "nextjs.handle"
  /\ req[i].method = "POST" /\ req[j].method = "POST"
  /\ req[i].id = req[j].id /\ req[i].body = req[j].body
  /\ req[i].bodyOk /\ req[j].bodyOk
  /\ sdk[i] = sdk[j]

HandlerStep(i) ==
  \/ HonoHandler(i) \/ HonoHandlerJson(i) \/ HonoHandlerResult(i)
  \/ ExpressHandler(i) \/ ExpressHandlerResult(i)
  \/ FastifyHandler(i) \/ FastifyHandlerResult(i)
  \/ NextPOST(i) \/ NextPOSTJson(i) \/ NextPOSTResult(i)
  \/ NextHandle(i) \/ NextHandleResult(i)

\* Invocation i has something to do that depends on nobody but itself: it
\* was just called, its body is being parsed, or its SDK call has settled.
Runnable(i) ==
  \/ pc[i] \in {"entry", "awaitJson"}
  \/ pc[i] = "awaitTrigger" /\ Settled(sdk[i])

\* C12: with invocations in flight together, in every interleaving, each
\* invocation's SDK call carries its own request's identifier and payload,
\* each success response carries its own request's identifier and payload and
\* the handle of its own SDK call, and an invocation that can go on is never
\* held up by another one.
C12_InvocationsIsolated ==
  \A i \in Invocations :
    /\ \A k \in 1..Len(calls[i]) :
         calls[i][k] = [id |-> req[i].id, payload |-> req[i].body]
    /\ (Done(i) /\ sdk[i].state = "fulfilled") =>
         /\ Len(res[i].sent) = 1
         /\ res[i].sent[1].body.taskId = req[i].id
         /\ res[i].sent[1].body.payload = req[i].body
         /\ res[i].sent[1].body.handle = sdk[i].value
    /\ Runnable(i) => ENABLED HandlerStep(i)
    /\ (pc[i] = "awaitTrigger" /\ sdk[i].state = "pending") =>
         ENABLED (SdkResolve(i) \/ SdkReject(i))

\* C12 witness: two invocations with different identifiers and payloads
\* were in flight together, got different runs, and each answered with its
\* own identifier, payload and handle.
C12_Witness ==
  \E i, j \in Invocations :
    /\ i # j
    /\ Done(i) /\ Done(j)
    /\ sdk[i].state = "fulfilled" /\ sdk[j].state = "fulfilled"
    /\ req[i].id # req[j].id /\ req[i].body # req[j].body
    /\ sdk[i].value.id # sdk[j].value.id
    /\ res[i].sent = <<[status |-> 200,
                        body |-> [handle |-> sdk[i].value, taskId |-> req[i].id,
                                  payload |-> req[i].body]]>>
    /\ res[j].sent = <<[status |-> 200,
                        body |-> [handle |-> sdk[j].value, taskId |-> req[j].id,
                                  payload |-> req[j].body]]>>

\* Invocation i's request passed the guards and its payload was obtained.
Passed(i) == pc[i] \in {"awaitTrigger", "done"} /\ Triggerable(req[i])

\* The number of SDK calls made by the invocations in S.
RECURSIVE SdkCalls(_)
SdkCalls(S) ==
  IF S = {}
  THEN 0
  ELSE LET i == CHOOSE x \in S : TRUE
       IN Len(calls[i]) + SdkCalls(S \ {i})

\* C13: the SDK is called once per request that passed the identifier guard
\* and obtained its payload, neither more nor less, also when two requests in
\* flight carry the same identifier and the same payload.
C13_OneSdkCallPerRequest ==
  SdkCalls(Invocations) = Cardinality({i \in Invocations : Passed(i)})

\* C13 witness: two requests with the same identifier and payload are in
\* flight and the SDK has been called twice with the same arguments.
C13_Witness ==
  \E i, j \in Invocations :
    /\ i # j
    /\ Passed(i) /\ Passed(j)
    /\ req[i].id = req[j].id /\ req[i].body = req[j].body
    /\ calls[i] = calls[j] /\ Len(calls[i]) = 1
    /\ SdkCalls(Invocations) >= 2

\* Two finished invocations of the same entry point had the same request
\* (identifier, method, payload) and the same SDK outcome.
SameCase(i, j) ==
  /\ Done(i) /\ Done(j)
  /\ req[i] = req[j]
  /\ sdk[i] = sdk[j]

\* C14: the outcome of an invocation (the response's status and body, how
\* the handler ended, and the arguments of its SDK call) is determined by its
\* request and its SDK outcome alone: any two invocations with the same
\* request and SDK outcome end alike, whatever ran before or beside them, and
\* an invocation starts with nothing left from an earlier one.
C14_OutcomeDependsOnRequestOnly ==
  /\ \A i, j \in Invocations :
       SameCase(i, j) =>
         (res[i] = res[j] /\ ret[i] = ret[j] /\ calls[i] = calls[j])
  /\ \A i \in Invocations :
       pc[i] = "entry" =>
         (AtStart(i) /\ task[i] = Undefined /\ payload[i] = Undefined)

\* C14 witness: two distinct invocations of the Fastify handler with the
\* same request saw the same SDK rejection and both answered 500.
C14_Witness ==
  \E i, j \in Invocations :
    /\ i # j
    /\ SameCase(i, j)
    /\ req[i].adapter = "fastify"
    /\ sdk[i].state = "rejected"
    /\ Answered(i, 500, FailedToTrigger) /\ Answered(j, 500, FailedToTrigger)

C16_PayloadRoundTrip ==
  \A i \in Invocations :
    (HasRequest(i) /\ Triggerable(req[i])) =>
      /\ Passed(i) => calls[i] = <<[id |-> req[i].id, payload |-> req[i].body]>>
      /\ (Done(i) /\ sdk[i].state = "fulfilled") =>
           /\ FullSuccess(i)
           /\ res[i].sent[1].body.payload = req[i].body
           /\ TypeOf(res[i].sent[1].body.payload) = TypeOf(req[i].body)
      /\ Done(i) => Outcome(i) \notin {"rejected-400", "rejected-405", "other"}

\* C16 witness: the Fastify handler was sent false, called the SDK with
\* false and echoed false in its 200 response.
C16_Witness ==
  \E i \in Invocations :
    /\ Done(i) /\ sdk[i].state = "fulfilled"
    /\ req[i].adapter = "fastify"
    /\ req[i].body = Bool(FALSE)
    /\ calls[i] = <<[id |-> req[i].id, payload |-> Bool(FALSE)]>>
    /\ res[i].sent = <<[status |-> 200,
                        body |-> [handle |-> sdk[i].value, taskId |-> req[i].id,
                                  payload |-> Bool(FALSE)]]>>

\* Two finished invocations of the Fastify handler had the same identifier
\* and payload and the SDK rejected both calls, with whatever errors.
BothRejectedFastify(i, j) ==
  /\ Done(i) /\ Done(j)
  /\ req[i].adapter = "fastify" /\ req[j].adapter = "fastify"
  /\ req[i].id = req[j].id /\ req[i].body = req[j].body
  /\ sdk[i].state = "rejected" /\ sdk[j].state = "rejected"

WantedValid(r) == r.wanted.kind = "string" /\ r.wanted.val # <<>>

\* Invocation i was called with the route's identifier and the body, and
\* any success response names that identifier.
ServedAs(i, id) ==
  /\ pc[i] \in {"awaitTrigger", "done"} => calls[i] = <<[id |-> id, payload |-> req[i].body]>>
  /\ (Done(i) /\ sdk[i].state = "fulfilled") =>
       (FullSuccess(i) /\ res[i].sent[1].body.taskId = id)

\* Invocation i was refused for want of an identifier.
RefusedNoId(i) ==
  /\ calls[i] = <<>>
  /\ Done(i) => Answered(i, 400, TaskIdRequired)

\* C18 (as stated): the App Router POST takes the final path segment of the
\* request URL as identifier, for every URL: for <prefix>/<id> with or
\* without a query string the SDK is called with <id> and the response's
\* taskId is <id>, and for a URL without a final segment the response is 400.
C18_FinalPathSegmentIsId ==
  \A i \in Invocations :
    (HasRequest(i) /\ req[i].adapter = "nextjs.POST"
       /\ req[i].route \in {"id-last", "query"}) =>
      IF WantedValid(req[i])
      THEN ServedAs(i, req[i].wanted)
      ELSE RefusedNoId(i)

\* C19 (as stated): the Pages Router handle mounted on the catch-all route
\* pages/api/[...all].ts, whose path segments arrive as query.all, infers the
\* identifier from the end of the route: a POST to <prefix>/<id> calls the
\* SDK with <id> and is answered 200.
C19_CatchAllInfersId ==
  \A i \in Invocations :
    (HasRequest(i) /\ req[i].adapter = "nextjs.handle"
       /\ req[i].route = "catch-all") =>
      /\ ServedAs(i, req[i].wanted)
      /\ Done(i) => Outcome(i) \notin {"rejected-400", "rejected-405"}

\* C20 (as stated): on the nested App Router route
\* app/api/v1/tasks/[id]/trigger/route.ts, for POST /api/v1/tasks/<id>/trigger,
\* the adapter takes the identifier from the dynamic segment: the SDK is
\* called with <id> and the response's taskId is <id>.
C20_NestedRouteUsesSegment ==
  \A i \in Invocations :
    (HasRequest(i) /\ req[i].adapter = "nextjs.POST"
       /\ req[i].route = "nested") =>
      ServedAs(i, req[i].wanted)

\* ------------------------------------------------------- claims C21 - C30

\* C21 (as stated): the success response body of every adapter is the SDK's
\* run object itself: the fields the SDK resolved with (id, taskIdentifier)
\* are at the top level of the body.
C21_BodyIsRunObject ==
  \A i \in Invocations :
    (Done(i) /\ sdk[i].state = "fulfilled") =>
      /\ Len(res[i].sent) = 1
      /\ {"id", "taskIdentifier"} \subseteq DOMAIN res[i].sent[1].body
      /\ res[i].sent[1].body = sdk[i].value

\* C22 (as stated): when the SDK call rejects because the task named by the
\* identifier does not exist, the adapter answers with status 404.
C22_TaskNotFoundIs404 ==
  \A i \in Invocations :
    (Done(i) /\ sdk[i] = Rejected("Task not found")) =>
      /\ Len(res[i].sent) = 1
      /\ res[i].sent[1].status = 404

\* Invocation i suspends at the await `at` in this step.
Suspends(i, at) == pc[i] # at /\ pc'[i] = at

\* The entry points that read the body themselves, with an await.
ReadsBody == {"hono", "nextjs.POST"}

\* C23 (as stated): every invocation of every entry point suspends exactly
\* twice on its success path, first on the body read and then on the SDK
\* call: no invocation comes to await the SDK call except from the await of
\* the body read.
C23_SuspendsExactlyTwice ==
  [][\A i \in Invocations :
       Suspends(i, "awaitTrigger") => pc[i] = "awaitJson"]_vars

\* C23 (amended): on the success path every invocation suspends on the SDK
\* call exactly once and finishes from there; Hono and Next.js POST have
\* suspended once before, on the body read, and so suspend exactly twice;
\* Express, Fastify and Next.js handle come to the SDK call straight from
\* their entry and so suspend exactly once.
C23_SuspensionsPerEntryPoint ==
  [][\A i \in Invocations :
       /\ Suspends(i, "awaitJson") =>
            (pc[i] = "entry" /\ req[i].adapter \in ReadsBody)
       /\ Suspends(i, "awaitTrigger") =>
            pc[i] = (IF req[i].adapter \in ReadsBody THEN "awaitJson" ELSE "entry")
       /\ (pc[i] = "awaitJson" /\ pc'[i] # "awaitJson") =>
            pc'[i] \in {"awaitTrigger", "done"}
       /\ (pc[i] = "awaitTrigger" /\ pc'[i] # "awaitTrigger") => pc'[i] = "done"
       /\ (pc'[i] = "done" /\ pc[i] # "done" /\ sdk'[i].state = "fulfilled") =>
            pc[i] = "awaitTrigger"]_vars

\* C23 witness: an Express invocation, which never awaits a body read, has
\* finished its success path.
C23_Witness ==
  \E i \in Invocations :
    /\ Done(i) /\ req[i].adapter = "express"
    /\ sdk[i].state = "fulfilled" /\ FullSuccess(i)

\* A response with status 200 is among those invocation i has written.
WroteSuccess(i) == \E k \in 1..Len(res[i].sent) : res[i].sent[k].status = 200

\* C24: within an invocation the identifier check comes first, then the
\* payload read, then the SDK call, then the response: the body is being
\* read only after the identifier passed and before any SDK call or response;
\* the SDK is called only with the identifier checked and the payload read;
\* without identifier Hono and Next.js POST never read the body; and a
\* success response is written only once the SDK call has resolved.
C24_StepsInOrder ==
  \A i \in Invocations :
    /\ pc[i] = "awaitJson" =>
         (~Falsy(task[i]) /\ calls[i] = <<>> /\ res[i].sent = <<>>)
    /\ calls[i] # <<>> =>
         /\ ~Falsy(task[i]) /\ req[i].bodyOk
         /\ payload[i] = req[i].body
         /\ calls[i] = <<[id |-> task[i], payload |-> payload[i]]>>
    /\ (HasRequest(i) /\ req[i].adapter \in ReadsBody /\ IdMissing(req[i])) =>
         (pc[i] # "awaitJson" /\ payload[i] = Undefined /\ ret[i] # Rejected(SyntaxError))
    /\ WroteSuccess(i) => (sdk[i].state = "fulfilled" /\ calls[i] # <<>>)
    /\ res[i].sent # <<>> => Done(i)

\* C24 witness: a Hono request without identifier and with a body that
\* cannot be parsed was answered 400; the body was never read.
C24_Witness ==
  \E i \in Invocations :
    /\ Done(i) /\ req[i].adapter = "hono"
    /\ IdMissing(req[i]) /\ ~req[i].bodyOk
    /\ Answered(i, 400, TaskIdRequired) /\ ret[i] = Returned
    /\ payload[i] = Undefined

\* The entry points without a try/catch around the SDK call.
NonCatching == {"hono", "express", "nextjs.POST", "nextjs.handle"}

BodyReadRejects(i) ==
  /\ HasRequest(i)
  /\ req[i].adapter \in ReadsBody
  /\ ~IdMissing(req[i])
  /\ ~req[i].bodyOk

SendOutcomes == {"returns", "throws-unsent", "throws-sent"}

\* fastify.ts lines 21-25 once trigger has settled, with reply.send(result)
\* ending in `send`: whatever is thrown inside the try block, by trigger or
\* by reply.send, lands in the catch block's `reply.code(500).send(...)`.
FastifyResultThrowing(response, r, send) ==
  IF r.state = "fulfilled"
  THEN CASE send = "returns" ->
              [res |-> Send(response, r.value), ret |-> Returned]
         [] send = "throws-unsent" ->
              [res |-> Send(Status(response, 500), FailedToTrigger), ret |-> Returned]
         [] send = "throws-sent" ->
              [res |-> Send(Status(Send(response, r.value), 500), FailedToTrigger),
               ret |-> Returned]
  ELSE [res |-> Send(Status(response, 500), FailedToTrigger), ret |-> Returned]

FastifyHandlerResultThrowing(i) ==
  /\ pc[i] = "awaitTrigger"
  /\ req[i].adapter = "fastify"
  /\ Settled(sdk[i])
  /\ \E send \in SendOutcomes :
       LET r == trigger(task[i], payload[i], sdk[i])
           o == FastifyResultThrowing(res[i], r, send)
       IN /\ result' = [result EXCEPT ![i] = r]
          /\ Finish(i, o.res, o.ret)
  /\ UNCHANGED <<req, task, payload, calls, sdk>>

FastifyRequests == {r \in Requests : r.adapter = "fastify"}

\* Fastify dispatches a request to a fresh invocation of the handler.
ReceiveFastify(i) ==
  /\ pc[i] = "idle"
  /\ \E r \in FastifyRequests : req' = [req EXCEPT ![i] = r]
  /\ pc' = [pc EXCEPT ![i] = "entry"]
  /\ ret' = [ret EXCEPT ![i] = Pending]
  /\ UNCHANGED <<task, payload, calls, sdk, result, res>>

NextFaults ==
  \E i \in Invocations :
    \/ ReceiveFastify(i)
    \/ Discard(i)
    \/ SdkResolve(i)
    \/ SdkReject(i)
    \/ FastifyHandler(i)
    \/ FastifyHandlerResultThrowing(i)

\* The Fastify adapter with a reply whose send may throw.
SpecFaults == Init /\ [][NextFaults]_vars

\* The fixed failure reply is among the responses invocation i has written.
ToldFailed(i) ==
  \E k \in 1..Len(res[i].sent) :
    res[i].sent[k] = [status |-> 500, body |-> FailedToTrigger]

\* C27 (as stated): the Fastify handler answers 500 {error: "Failed to
\* trigger task"} only when the SDK call rejected, also when writing the
\* success reply throws: never is the caller told that triggering failed
\* after the SDK call resolved.
C27_FailureOnlyAfterRejection ==
  \A i \in Invocations :
    (HasRequest(i) /\ req[i].adapter = "fastify" /\ ToldFailed(i)) =>
      sdk[i].state = "rejected"

\* C28 (as stated): an invocation writes at most one response: no path
\* sends a second status/body pair after a first one, the Fastify path where
\* an error is thrown after reply.send(result) was called included, and a
\* handler that returned has sent exactly one.
C28_AtMostOneResponse ==
  \A i \in Invocations :
    /\ Len(res[i].sent) <= 1
    /\ (Done(i) /\ ret[i] = Returned) => Len(res[i].sent) = 1

\* C29: the Pages Router handle answers a POST whose query.id is an array
\* like one without identifier, with 400 {error: "Task ID is required"} and
\* no SDK call, and whenever it calls the SDK the identifier is a non-empty
\* string.
C29_ArrayIdRejected ==
  \A i \in Invocations :
    (HasRequest(i) /\ req[i].adapter = "nextjs.handle") =>
      /\ (req[i].method = "POST" /\ TypeOf(req[i].id) # "string") =>
           /\ calls[i] = <<>>
           /\ Done(i) => (Answered(i, 400, TaskIdRequired) /\ ret[i] = Returned)
      /\ \A k \in 1..Len(calls[i]) :
           /\ TypeOf(calls[i][k].id) = "string"
           /\ calls[i][k].id.val # <<>>

\* C29 witness: handle answered 400 to a POST whose query.id was the array
\* ["a"], without calling the SDK.
C29_Witness ==
  \E i \in Invocations :
    /\ Done(i) /\ req[i].adapter = "nextjs.handle"
    /\ req[i].method = "POST" /\ req[i].id = Arr(<<"a">>)
    /\ Answered(i, 400, TaskIdRequired)
    /\ calls[i] = <<>>

\* ------------------------------------------------------------- scheduling

\* The event loop runs a handler whose next step is ready (the body read
\* has settled, or the SDK call has), and the SDK settles every call made.
Fairness ==
  \A i \in Invocations :
    /\ WF_vars(HandlerStep(i))
    /\ WF_vars(SdkResolve(i) \/ SdkReject(i))

\* One request of each kind per entry point: with and without identifier,
\* with a body that parses and (where the handler reads it) one that does
\* not, and a GET.
LiveRequests ==
  {Request(a, "POST", id, Arr(<<1, 2, 3>>), TRUE) :
     a \in Adapters, id \in {Undefined, Str(<<"a">>)}}
  \cup {Request(a, "POST", Str(<<"a">>), Undefined, FALSE) : a \in ReadsBody}
  \cup {Request("nextjs.handle", "GET", Str(<<"a">>), Arr(<<1, 2, 3>>), TRUE)}

LiveRequestsFor(i) == IF i = 1 THEN LiveRequests ELSE BackgroundRequests

\* The framework dispatches one of these requests to a fresh invocation.
ReceiveLive(i) ==
  /\ pc[i] = "idle"
  /\ \E r \in LiveRequestsFor(i) : req' = [req EXCEPT ![i] = r]
  /\ pc' = [pc EXCEPT ![i] = "entry"]
  /\ ret' = [ret EXCEPT ![i] = Pending]
  /\ UNCHANGED <<task, payload, calls, sdk, result, res>>

NextLive ==
  \E i \in Invocations :
    \/ ReceiveLive(i)
    \/ Discard(i)
    \/ SdkResolve(i)
    \/ SdkReject(i)
    \/ HonoHandler(i)
    \/ HonoHandlerJson(i)
    \/ HonoHandlerResult(i)
    \/ ExpressHandler(i)
    \/ ExpressHandlerResult(i)
    \/ FastifyHandler(i)
    \/ FastifyHandlerResult(i)
    \/ NextPOST(i)
    \/ NextPOSTJson(i)
    \/ NextPOSTResult(i)
    \/ NextHandle(i)
    \/ NextHandleResult(i)

\* All entry points, with bodies and SDK calls that settle.
SpecLive == Init /\ [][NextLive]_vars /\ Fairness

\* C30: every invocation terminates: given that its body read and its SDK
\* call settle, an invocation that was called reaches a terminal outcome, a
\* written response or a propagated rejection; the adapter waits for nothing
\* else.
C30_InvocationTerminates ==
  \A i \in Invocations :
    (pc[i] = "entry") ~> (Done(i) /\ Outcome(i) # "other")

\* C30 witness: a Hono invocation came to its end through both awaits, the
\* SDK having rejected: the terminal outcome is the propagated rejection.
C30_Witness ==
  \E i \in Invocations :
    /\ Done(i) /\ req[i].adapter = "hono"
    /\ sdk[i].state = "rejected"
    /\ Outcome(i) = "failed-propagated"

====
